---- MODULE Spec2Model ----
(***************************************************************************)
(* Humanivio API: the request pipeline of src/server.js and of its second  *)
(* copy src/unnamed/part_000.  A request passes the rate limiting          *)
(* middleware (rateLimiter.consume keyed by req.ip), then the route        *)
(* handler: POST /api/humanize validates req.body.text, awaits the         *)
(* upstream completion and shapes the reply; GET /api/health replies at    *)
(* once.  Node runs every handler to its next await without interleaving,  *)
(* so each action below is one such run.                                   *)
(***************************************************************************)
EXTENDS Integers, Sequences, FiniteSets, TLC

VARIABLES variant, points, now, storage, reqs

vars == <<variant, points, now, storage, reqs>>

(* ------------------------------ bounds --------------------------------- *)
MaxPoints == 1
MaxReq == 3
MaxTicks == 2
MaxReqText == 1

(* ------------------------- program constants --------------------------- *)
WordLimit == 1000
DURATIONMutMillis == 24 * 60 * 60 * 1000
DURATION == 24 * 60 * 60

Variants == {"server.js", "part_000"}
Clients == {"10.0.0.1", "10.0.0.2"}
\* the clock advances half a day at a time
TickStep == 12 * 60 * 60

(* ------------------------ JavaScript values ---------------------------- *)
(* A string is a sequence of one-character strings.                        *)
JsUndefined == [type |-> "undefined", str |-> <<>>, num |-> 0]
JsNull == [type |-> "null", str |-> <<>>, num |-> 0]
JsStr(s) == [type |-> "string", str |-> s, num |-> 0]
JsNum(n) == [type |-> "number", str |-> <<>>, num |-> n]

WhiteSpace == {" ", "\t"}
IsWs(ch) == ch \in WhiteSpace

\* !v
Falsy(v) ==
  \/ v.type \in {"undefined", "null"}
  \/ v.type = "string" /\ v.str = <<>>
  \/ v.type = "number" /\ v.num = 0

\* v.trim exists only on strings; calling it on anything else throws
HasTrim(v) == v.type = "string"

\* String.prototype.trim
Trim(s) ==
  IF \A i \in 1..Len(s) : IsWs(s[i]) THEN <<>>
  ELSE LET lo == CHOOSE i \in 1..Len(s) : ~IsWs(s[i]) /\ \A j \in 1..(i - 1) : IsWs(s[j])
           hi == CHOOSE i \in 1..Len(s) : ~IsWs(s[i]) /\ \A j \in (i + 1)..Len(s) : IsWs(s[j])
       IN SubSeq(s, lo, hi)

\* s.split(/\s+/).length: one piece more than there are maximal whitespace
\* runs; the empty string splits into the one piece ''
SplitLen(s) ==
  1 + Cardinality({i \in 1..Len(s) : IsWs(s[i]) /\ (i = 1 \/ ~IsWs(s[i - 1]))})


\* text literals used as inputs
Word == "a"
\* n words separated by single spaces, lead spaces before and trail after
MkText(lead, n, trail) ==
  [i \in 1..lead |-> " "]
  \o [i \in 1..(IF n = 0 THEN 0 ELSE 2 * n - 1) |-> IF i % 2 = 1 THEN Word ELSE " "]
  \o [i \in 1..trail |-> " "]

(* ----------------------------- responses ------------------------------- *)
NoRes ==
  [status |-> 0, error |-> "", humanizedText |-> <<>>, originalWordCount |-> 0,
   humanizedWordCount |-> 0, healthStatus |-> ""]
ErrorRes(code, msg) == [NoRes EXCEPT !.status = code, !.error = msg]
OkRes(text, original, humanized) ==
  [NoRes EXCEPT !.status = 200, !.humanizedText = text,
                !.originalWordCount = original, !.humanizedWordCount = humanized]
HealthRes == [NoRes EXCEPT !.status = 200, !.healthStatus = "OK"]

LimitMessage(v) ==
  IF v = "server.js"
  THEN "Free daily limit reached. Please try again tomorrow or consider upgrading for higher limits."
  ELSE "Daily limit exceeded. Please try again tomorrow."
MissingMessage == "Please provide text to humanize"
WordsMessage == "Text exceeds 1000 words limit"
QuotaMessage == "API quota exceeded. Please check your OpenAI account."
KeyMessage == "Invalid API key. Please check your configuration."
GenericMessage == "Failed to humanize text. Please try again."

(* -------------------- rateLimiter (RateLimiterMemory) ------------------ *)
\* a stored record is live while its expiry lies in the future
WindowActive(rec, t) == rec.expiresAt > t

\* MemoryStorage.incrby(key, 1, duration): add to a live record, else start
\* a new one that expires duration seconds from now (an expired record is
\* replaced here whether or not its timer has deleted it yet)
Incrby(st, key, t) ==
  IF key \in DOMAIN st /\ WindowActive(st[key], t)
  THEN [st EXCEPT ![key].value = @ + 1]
  ELSE [k \in DOMAIN st \cup {key} |->
          IF k = key THEN [value |-> 1, expiresAt |-> t + DURATION] ELSE st[k]]

\* consume rejects when the consumed points exceed the configured points
ExceedsMutOffByOne(consumed, limit) == consumed >= limit
Exceeds(consumed, limit) == consumed > limit

(* ------------------------------ requests ------------------------------- *)
NoOutcome == [kind |-> "none", shape |-> "", content |-> JsUndefined, code |-> ""]
Resolved(shape, content) ==
  [kind |-> "resolved", shape |-> shape, content |-> content, code |-> ""]
Rejected(code) ==
  [kind |-> "rejected", shape |-> "", content |-> JsUndefined, code |-> code]

NewReq(c, route, text) ==
  [client |-> c, route |-> route, text |-> text, pc |-> "gate",
   at |-> 0, consumed |-> 0, admitted |-> FALSE,
   handled |-> FALSE, calls |-> 0, outcome |-> NoOutcome,
   responses |-> 0, res |-> NoRes]

\* res.status(..).json(..): the first reply is the one the client receives
Respond(r, res) ==
  [r EXCEPT !.responses = @ + 1, !.res = IF r.responses = 0 THEN res ELSE @]

\* the middleware either calls next() or replies 429 and stops
AfterGateMutFallThrough(rejected) == "route"
AfterGate(rejected) == IF rejected THEN "done" ELSE "route"

(* ------------------------- POST /api/humanize -------------------------- *)
\* wordCount > 1000
OverLimitMutInclusive(wordCount) == wordCount >= WordLimit
OverLimit(wordCount) == wordCount > WordLimit

\* The checks on req.body.text before the upstream call: "missing" and
\* "limit" reply 400, "throw" is the TypeError of calling trim on a value
\* that has none, "ok" goes on to the upstream call.
ValidateMutSkipped(text) == "ok"
Validate(text) ==
  IF Falsy(text) THEN "missing"
  ELSE IF ~HasTrim(text) THEN "throw"
  ELSE IF Trim(text.str) = <<>> THEN "missing"
  ELSE IF OverLimit(SplitLen(Trim(text.str))) THEN "limit"
  ELSE "ok"

\* text.trim().split(/\s+/).length
WordCount(text) == SplitLen(Trim(text.str))

\* the message the catch block selects by error.code
ErrorMessageMutSwapped(code) ==
  IF code = "insufficient_quota" THEN KeyMessage
  ELSE IF code = "invalid_api_key" THEN QuotaMessage
  ELSE GenericMessage
ErrorMessage(code) ==
  IF code = "insufficient_quota" THEN QuotaMessage
  ELSE IF code = "invalid_api_key" THEN KeyMessage
  ELSE GenericMessage

\* catch (error): every branch replies 500
Catch(code) == ErrorRes(500, ErrorMessage(code))

\* The reply server.js builds from a resolved completion: the content is read
\* through optional chaining and falls back to ''.
ShapeServer(completion, wordCount) ==
  LET c == IF completion.shape = "content" THEN completion.content ELSE JsUndefined
      humanizedText == IF Falsy(c) THEN JsStr(<<>>) ELSE c
  IN IF ~HasTrim(humanizedText) THEN Catch("")
     ELSE OkRes(Trim(humanizedText.str), wordCount,
                IF Falsy(humanizedText) THEN 0
                ELSE SplitLen(Trim(humanizedText.str)))

\* The reply part_000 builds: it dereferences
\* completion.choices[0].message.content and calls split on it, which throws
\* a TypeError (an error without code, caught by the catch block) when a link
\* of the chain is missing or the content is not a string.
ShapePart000(completion, wordCount) ==
  IF completion.shape # "content" THEN Catch("")
  ELSE LET humanizedText == completion.content
       IN IF humanizedText.type # "string" THEN Catch("")
          ELSE OkRes(humanizedText.str, wordCount, SplitLen(humanizedText.str))

Shape(v, completion, wordCount) ==
  IF v = "server.js" THEN ShapeServer(completion, wordCount)
  ELSE ShapePart000(completion, wordCount)

(* ------------------------------- inputs -------------------------------- *)
Bodies == {JsUndefined, JsStr(MkText(0, 1, 0))}
\* a GET /api/health carries no body
Calls == {<<"health", JsUndefined>>} \cup {<<"humanize", text>> : text \in Bodies}
Outcomes == {Resolved("content", JsStr(MkText(0, 1, 0))), Rejected("")}

TextBodies ==
  {JsUndefined, JsNull, JsNum(0), JsNum(123), JsStr(<<>>), JsStr(<<" ">>),
   JsStr(<<"\t", " ">>), JsStr(MkText(0, 1, 0)), JsStr(MkText(1, 2, 1)),
   JsStr(<<"a", " ", "\t", "a">>),
   JsStr(MkText(1, WordLimit, 1)), JsStr(MkText(0, WordLimit + 1, 0))}
TextOutcomes ==
  {Resolved("noChoices", JsUndefined), Resolved("noMessage", JsUndefined),
   Resolved("content", JsNull)}
  \cup {Resolved("content", JsStr(s)) :
          s \in {<<>>, <<" ">>, <<"b">>, <<" ", "b", " ", " ", "c", " ">>}}
  \cup {Rejected(code) :
          code \in {"insufficient_quota", "invalid_api_key", "rate_limit_exceeded", ""}}

(* ------------------------------- actions ------------------------------- *)
Init ==
  /\ variant \in Variants
  /\ points \in 1..MaxPoints    \* RATE_LIMIT_POINTS; part_000 fixes it at 10
  /\ now = 0
  /\ storage = <<>>
  /\ reqs = <<>>

\* app.post('/api/humanize') up to the await of the upstream call
HumanizeStart(r) ==
  LET v == Validate(r.text)
      h == [r EXCEPT !.handled = TRUE]
  IN CASE v = "missing" -> [Respond(h, ErrorRes(400, MissingMessage)) EXCEPT !.pc = "done"]
       [] v = "limit" -> [Respond(h, ErrorRes(400, WordsMessage)) EXCEPT !.pc = "done"]
       [] v = "throw" -> [Respond(h, Catch("")) EXCEPT !.pc = "done"]
       [] OTHER -> [h EXCEPT !.calls = @ + 1, !.pc = "await"]

\* app.get('/api/health')
HealthReply(r) ==
  [Respond([r EXCEPT !.handled = TRUE], HealthRes) EXCEPT !.pc = "done"]

\* next(): the router runs the handler of the request's route
Route(r) ==
  IF r.route = "humanize" THEN HumanizeStart(r) ELSE HealthReply(r)

\* A request reaches the rate limiting middleware: rateLimiter.consume(req.ip)
\* adds a point in one synchronous step; the middleware then replies 429 or
\* calls next(), and the route handler runs on to its reply or to its await.
Request(c, route, text) ==
  LET st == Incrby(storage, c, now)
      rejected == Exceeds(st[c].value, points)
      r == [NewReq(c, route, text) EXCEPT
              !.at = now, !.consumed = st[c].value,
              !.admitted = ~rejected, !.pc = AfterGate(rejected)]
      g == IF rejected THEN Respond(r, ErrorRes(429, LimitMessage(variant))) ELSE r
  IN /\ storage' = st
     /\ reqs' = Append(reqs, IF g.pc = "route" THEN Route(g) ELSE g)
     /\ UNCHANGED <<variant, points, now>>

Middleware(c, route, text) ==
  /\ Len(reqs) < MaxReq
  /\ Request(c, route, text)

\* the upstream call settles and the handler resumes: reply shaping when it
\* resolved, the catch block when it rejected
Settle(i, o) ==
  LET r == reqs[i]
      s == [r EXCEPT !.outcome = o]
  IN /\ r.pc = "await"
     /\ reqs' = [reqs EXCEPT ![i] =
          [Respond(s, IF o.kind = "resolved"
                      THEN Shape(variant, o, WordCount(r.text))
                      ELSE Catch(o.code))
            EXCEPT !.pc = "done"]]
     /\ UNCHANGED <<variant, points, now, storage>>

\* time passes
Tick ==
  /\ now < MaxTicks * TickStep
  /\ now' = now + TickStep
  /\ UNCHANGED <<variant, points, storage, reqs>>

Next ==
  \/ \E c \in Clients, call \in Calls : Middleware(c, call[1], call[2])
  \/ \E i \in 1..Len(reqs), o \in Outcomes : Settle(i, o)
  \/ Tick

Spec == Init /\ [][Next]_vars

\* one client's requests with the whole range of bodies and upstream outcomes
MiddlewareText(c, text) ==
  /\ Len(reqs) < MaxReqText
  /\ Request(c, "humanize", text)

NextText ==
  \/ \E c \in Clients, text \in TextBodies : MiddlewareText(c, text)
  \/ \E i \in 1..Len(reqs), o \in TextOutcomes : Settle(i, o)

SpecText == Init /\ [][NextText]_vars

(* ------------------------- terms of the claims ------------------------- *)
Idx == 1..Len(reqs)

\* 24 hours, in the seconds of the clock
Day == 24 * 60 * 60

\* The start of the window request i falls in: a client's first request
\* starts a window, and so does its first request 24 hours or more after the
\* start of the window before.
RECURSIVE PrevOf(_, _)
PrevOf(c, i) ==
  IF i = 0 THEN 0 ELSE IF reqs[i].client = c THEN i ELSE PrevOf(c, i - 1)

RECURSIVE WinStart(_)
WinStart(i) ==
  LET p == PrevOf(reqs[i].client, i - 1)
  IN IF p = 0 THEN reqs[i].at
     ELSE LET w == WinStart(p)
          IN IF reqs[i].at < w + Day THEN w ELSE reqs[i].at

\* the window start of every request
WinStarts == [i \in Idx |-> WinStart(i)]

\* requests i and j of one client fall in the same window
SameWindow(ws, i, j) ==
  reqs[i].client = reqs[j].client /\ ws[i] = ws[j]

\* the position of request i among the requests of its window, in the order
\* in which they reached the middleware
Rank(ws, i) == Cardinality({j \in 1..i : SameWindow(ws, i, j)})

\* the whitespace-delimited tokens of s: its maximal runs of other characters
TokenCount(s) ==
  Cardinality({i \in 1..Len(s) : ~IsWs(s[i]) /\ (i = 1 \/ IsWs(s[i - 1]))})
Blank(s) == \A i \in 1..Len(s) : IsWs(s[i])

\* a body whose text is a string, or absent
TextOrAbsent(text) == text.type \in {"undefined", "string"}
MissingText(text) == text.type = "undefined" \/ (text.type = "string" /\ Blank(text.str))
ValidText(text) ==
  text.type = "string" /\ ~Blank(text.str) /\ TokenCount(text.str) <= WordLimit

\* a completion that carries no content
NoContent(o) ==
  o.kind = "resolved" /\ (o.shape # "content" \/ o.content.type \in {"undefined", "null"})

(* -------------------------------- claims ------------------------------- *)

\* C1: in every window of every client the first `points` requests that
\* reach the middleware are passed to their route handler, and the next one
\* is answered 429 with an error body and never reaches the handler.
C1_FirstNAdmitted ==
  LET ws == WinStarts
  IN \A i \in Idx :
       LET k == Rank(ws, i)
       IN /\ k <= points =>
               reqs[i].admitted /\ reqs[i].handled /\ reqs[i].res.status # 429
          /\ k = points + 1 =>
               /\ reqs[i].res.status = 429
               /\ reqs[i].res.error # ""
               /\ reqs[i].responses = 1
               /\ ~reqs[i].handled

C1_Witness ==
  LET ws == WinStarts
  IN \E i \in Idx :
       /\ Rank(ws, i) = points + 1
       /\ reqs[i].res.status = 429
       /\ \A j \in 1..(i - 1) : SameWindow(ws, i, j) => reqs[j].handled

\* C2: whatever the interleaving of requests, those suspended on the
\* upstream call included, at most `points` requests of one client reach a
\* route handler within one window.
C2_NeverOverCapacity ==
  LET ws == WinStarts
  IN \A i \in Idx :
       Cardinality({j \in Idx : SameWindow(ws, i, j) /\ reqs[j].handled}) <= points

C2_Witness ==
  LET ws == WinStarts
  IN \E i \in Idx, j \in Idx :
       /\ i < j
       /\ SameWindow(ws, i, j)
       /\ reqs[i].pc = "await"
       /\ reqs[j].res.status = 429

\* C3: a client whose last request was answered 429 is admitted on its first
\* request made 24 hours or more after the start of its window: that request
\* opens a new window with one point consumed, and the first `points`
\* requests of the new window are admitted.
C3_AdmittedAfterWindow ==
  /\ [](LET ws == WinStarts
        IN \A i \in Idx, j \in Idx :
             (/\ i < j
              /\ reqs[i].client = reqs[j].client
              /\ reqs[i].res.status = 429
              /\ ws[j] > ws[i]
              /\ Rank(ws, j) <= points)
             => reqs[j].handled /\ reqs[j].res.status # 429)
  /\ [][\A c \in Clients :
          (/\ Len(reqs') = Len(reqs) + 1
           /\ reqs'[Len(reqs')].client = c
           /\ \E i \in Idx :
                /\ reqs[i].client = c
                /\ \A j \in Idx : j > i => reqs[j].client # c
                /\ reqs[i].res.status = 429
                /\ now >= WinStart(i) + Day)
          => LET r == reqs'[Len(reqs')]
             IN /\ r.handled
                /\ r.res.status # 429
                /\ r.consumed = 1
                /\ storage'[c] = [value |-> 1, expiresAt |-> now + Day]]_vars

C3_Witness ==
  \E i \in Idx, j \in Idx :
    /\ i < j
    /\ reqs[i].client = reqs[j].client
    /\ reqs[i].res.status = 429
    /\ reqs[j].handled
    /\ reqs[j].consumed = 1
    /\ reqs[j].at >= WinStart(i) + Day

\* C4: an admitted POST /api/humanize whose text is absent, empty or only
\* whitespace is answered 400 "Please provide text to humanize"; one with
\* more than 1000 tokens is answered 400 "Text exceeds 1000 words limit";
\* neither calls upstream.  Every other string text, 1000 tokens included,
\* passes validation and the upstream call is made.
C4_Validation ==
  \A i \in Idx :
    (reqs[i].route = "humanize" /\ reqs[i].handled /\ TextOrAbsent(reqs[i].text)) =>
      LET r == reqs[i]
      IN /\ MissingText(r.text) =>
              r.res.status = 400 /\ r.res.error = "Please provide text to humanize"
              /\ r.calls = 0
         /\ (~MissingText(r.text) /\ TokenCount(r.text.str) > 1000) =>
              r.res.status = 400 /\ r.res.error = "Text exceeds 1000 words limit"
              /\ r.calls = 0
         /\ (~MissingText(r.text) /\ TokenCount(r.text.str) <= 1000) =>
              r.calls = 1 /\ r.res.status # 400

C4_Witness ==
  \E i \in Idx :
    /\ reqs[i].text.type = "string"
    /\ TokenCount(reqs[i].text.str) = 1000
    /\ reqs[i].calls = 1
    /\ reqs[i].pc = "await"

\* C5: every GET /api/health is answered 200 with status "OK", whatever
\* requests came before it.
C5_HealthAlwaysOk ==
  \A i \in Idx :
    reqs[i].route = "health" =>
      reqs[i].res.status = 200 /\ reqs[i].res.healthStatus = "OK"

\* C6: when the upstream call resolves without content the reply is 200 with
\* humanizedText '' and humanizedWordCount 0.
C6_NoContentIsEmpty ==
  \A i \in Idx :
    (reqs[i].pc = "done" /\ NoContent(reqs[i].outcome)) =>
      /\ reqs[i].res.status = 200
      /\ reqs[i].res.humanizedText = <<>>
      /\ reqs[i].res.humanizedWordCount = 0

\* C7: when the upstream call fails the reply is 500, exactly one reply is
\* sent, and its message is the one selected by the error code.
C7_UpstreamErrorMapping ==
  \A i \in Idx :
    (reqs[i].pc = "done" /\ reqs[i].outcome.kind = "rejected") =>
      LET r == reqs[i]
      IN /\ r.res.status = 500
         /\ r.responses = 1
         /\ r.outcome.code = "insufficient_quota" =>
              r.res.error = "API quota exceeded. Please check your OpenAI account."
         /\ r.outcome.code = "invalid_api_key" =>
              r.res.error = "Invalid API key. Please check your configuration."
         /\ r.outcome.code \notin {"insufficient_quota", "invalid_api_key"} =>
              r.res.error = "Failed to humanize text. Please try again."

C7_Witness ==
  \E i \in Idx :
    /\ reqs[i].pc = "done"
    /\ reqs[i].outcome.kind = "rejected"
    /\ reqs[i].outcome.code = "insufficient_quota"
    /\ reqs[i].res.status = 500

\* C8: a POST /api/humanize is answered 500 only if its upstream call was
\* made and failed; a body whose text is missing, empty, not a string or over
\* the word limit is answered 400 and never reaches the upstream call.
C8_ClientFaultIs400 ==
  \A i \in Idx :
    LET r == reqs[i]
    IN /\ r.res.status = 500 => r.calls = 1 /\ r.outcome.kind = "rejected"
       /\ (r.handled /\ ~ValidText(r.text)) => r.res.status = 400 /\ r.calls = 0

\* C9: in every 200 reply of POST /api/humanize humanizedText is the upstream
\* content trimmed, and humanizedWordCount is the number of tokens of that
\* trimmed text, 0 when humanizedText is ''.
C9_HumanizedWordCount ==
  \A i \in Idx :
    (reqs[i].route = "humanize" /\ reqs[i].res.status = 200) =>
      LET r == reqs[i]
          content == IF NoContent(r.outcome) THEN <<>> ELSE r.outcome.content.str
      IN /\ r.res.humanizedText = Trim(content)
         /\ r.res.humanizedWordCount = TokenCount(r.res.humanizedText)
         /\ r.res.humanizedText = <<>> => r.res.humanizedWordCount = 0

\* C10: the stages of a POST /api/humanize run in the order gate, validation,
\* upstream call, reply, and a request is answered once: a 429 is never
\* validated and never calls upstream; a 400 has consumed a point and never
\* calls upstream; a valid admitted request makes one upstream call and its
\* 200 or 500 follows the completion of that call.
C10_PipelineOrder ==
  \A i \in Idx :
    LET r == reqs[i]
    IN r.route = "humanize" =>
         /\ r.responses <= 1
         /\ r.pc = "done" <=> r.responses = 1
         /\ r.calls <= 1
         /\ r.handled => r.admitted
         /\ r.calls = 1 => r.handled /\ ValidText(r.text)
         /\ r.outcome.kind # "none" => r.calls = 1
         /\ r.res.status = 429 => ~r.handled /\ r.calls = 0
         /\ r.res.status = 400 =>
              r.handled /\ r.consumed \in 1..points /\ r.calls = 0
         /\ (r.handled /\ ValidText(r.text)) => r.calls = 1
         /\ (ValidText(r.text) /\ r.res.status \in {200, 500}) =>
              r.calls = 1 /\ r.outcome.kind # "none"

C10_Witness ==
  \E i \in Idx, j \in Idx, k \in Idx :
    /\ reqs[i].route = "humanize" /\ reqs[i].res.status = 429
    /\ reqs[j].route = "humanize" /\ reqs[j].res.status = 400
    /\ reqs[k].route = "humanize" /\ reqs[k].res.status = 200 /\ reqs[k].calls = 1

====
